---- MODULE Spec2Model ----
(***************************************************************************)
(* A model of jellymal-rs: the watch-state aggregation of jellyfin.rs, the *)
(* identifier translation of mapping.rs, the credential lifecycle of       *)
(* oauth.rs, the reconciliation loop of main.rs and the catalog traversal  *)
(* of jellyfin.rs.  Each component has its own specification over the      *)
(* shared variables; the variables of the other components stay idle.      *)
(***************************************************************************)
EXTENDS Integers, Sequences, FiniteSets, TLC

VARIABLES
    \* get_latest_episodes (jellyfin.rs)
    episodes,       \* the Vec<Episode> returned by get_episodes
    cursor,         \* number of episodes for_each has consumed
    status,         \* HashMap<i32, Episode>, a function on the keys present
    \* tvdb_id_to_mal_id (mapping.rs)
    animes,         \* AnimeList.animes, the records of the XML mapping file
    offline,        \* Vec<OfflineAnime>, the records of the JSON mapping file
    query,          \* the arguments (tvdb_id, tvdb_season_number)
    outcome,        \* the Result<i32> returned, NotCalled before
    \* get_items (jellyfin.rs)
    catalog,        \* the server's items: catalog[i] is the item of id i
    root,           \* the argument parent_id
    frontier,       \* Vec<Option<String>>
    media,          \* Vec<Item>, as the ids of the items
    requests,       \* the parentId of every /Items request sent, in order
    gpc,            \* "idle", "loop", "ok" (returned Ok) or "err" (returned Err)
    \* load_or_refresh_token (oauth.rs)
    token_file,     \* the file at token_path: None, or Some(ClientToken)
    clock,          \* Utc::now().timestamp_millis(), from the first call on
    client_token,   \* the local client_token, None while unassigned
    opc,            \* "idle", "loaded", "resolved", "returned" or "failed"
    loaded,         \* the token this call read from the file, None without
    checked_at,     \* current_time_millis of this call, None before line 166
    initialize_calls,   \* calls of initialize_token in this call
    refresh_calls,      \* calls of refresh_token in this call
    writes,         \* writes of the file in this call
    returned,       \* the Result this call returned, NotCalled before
    serial,         \* number of tokens the authorization server has issued
    invocations,    \* number of calls of load_or_refresh_token so far
    \* the loop of main (main.rs) and the destination (mal.rs)
    latest_episodes,    \* HashMap<i32, Episode> the loop runs over
    pending,        \* the keys the loop has not reached yet
    animelist,      \* the destination's list: UserAnimeListResponse.data
    dpc,            \* "idle", "loop", "query", "set", "done" or "aborted"
    current,        \* tvdb_id of the iteration under way
    mal_id,         \* the local mal_id
    seen,           \* the list each series' query was answered from
    patches,        \* the updates sent, in order
    failure,        \* "none", or what ? returned: "mapping" or "transport"
    \* get_episodes (jellyfin.rs)
    all_items,      \* items: the Vec<Item> get_items returned to get_episodes
    fetched         \* the Result<Vec<Episode>> returned, NotCalled before

vars ==
    <<episodes, cursor, status, animes, offline, query, outcome,
      catalog, root, frontier, media, requests, gpc,
      token_file, clock, client_token, opc, loaded, checked_at,
      initialize_calls, refresh_calls, writes, returned, serial, invocations,
      latest_episodes, pending, animelist, dpc, current, mal_id, seen, patches,
      failure, all_items, fetched>>

aggVars == <<episodes, cursor, status>>
mapVars == <<animes, offline, query, outcome>>
travVars == <<catalog, root, frontier, media, requests, gpc>>
authVars ==
    <<token_file, clock, client_token, opc, loaded, checked_at,
      initialize_calls, refresh_calls, writes, returned, serial, invocations>>

\* Option<T>: None is the empty sequence and Some(x) the one-element sequence.
None == <<>>

Some(x) == <<x>>

\* Result<T>: Ok(value) or Err(message); NotCalled before the call returns.
Ok(v) == [tag |-> "Ok", value |-> v]

Err(m) == [tag |-> "Err", error |-> m]

NotCalled == [tag |-> "NotCalled"]

(***************************************************************************)
(* Small helpers over sequences and sets.                                  *)
(***************************************************************************)
SeqsUpTo(S, n) == UNION {[1..k -> S] : k \in 0..n}

Range(f) == {f[x] : x \in DOMAIN f}

(***************************************************************************)
(* Watch-state aggregation: JellyfinApi::get_latest_episodes.              *)
(***************************************************************************)
\* Bounds of the aggregation inputs.
MaxEpisodes == 3
MaxSeason == 2

\* The tvdb ids and episode numbers the inputs are drawn from.
SeriesKeys == {41, 42}
EpisodeNumbers == {1, 2}

\* struct Episode, with the fields the reduce reads; id is the position of
\* the episode in the input, which keeps equal episodes apart.
EpisodeFields ==
    [tvdb_id : SeriesKeys, season_number : 1..MaxSeason,
     number : EpisodeNumbers, watched : BOOLEAN]

WithId(raw) ==
    [i \in DOMAIN raw |->
        [id |-> i, tvdb_id |-> raw[i].tvdb_id,
         season_number |-> raw[i].season_number,
         number |-> raw[i].number, watched |-> raw[i].watched]]

\* The condition under which an episode replaces the retained entry.
LaterBothGreater(episode, other) ==
    episode.season_number > other.season_number /\ episode.number > other.number

Later(episode, other) ==
    \/ episode.season_number > other.season_number
    \/ episode.season_number = other.season_number /\ episode.number > other.number

\* HashMap::insert
Insert(map, key, value) ==
    [k \in DOMAIN map \cup {key} |-> IF k = key THEN value ELSE map[k]]

\* The closure without its watched test.
VisitUnfiltered(map, episode) ==
    IF episode.tvdb_id \in DOMAIN map
    THEN IF Later(episode, map[episode.tvdb_id])
         THEN Insert(map, episode.tvdb_id, episode)
         ELSE map
    ELSE Insert(map, episode.tvdb_id, episode)

\* The closure given to for_each: the map after one episode.
Visit(map, episode) ==
    IF ~episode.watched
    THEN map
    ELSE IF episode.tvdb_id \in DOMAIN map
         THEN IF Later(episode, map[episode.tvdb_id])
              THEN Insert(map, episode.tvdb_id, episode)
              ELSE map
         ELSE Insert(map, episode.tvdb_id, episode)

EmptyMap == [k \in {} |-> None]

MapIdle ==
    /\ animes = <<>>
    /\ offline = <<>>
    /\ query = None
    /\ outcome = NotCalled

TravIdle ==
    /\ catalog = <<>>
    /\ root = None
    /\ frontier = <<>>
    /\ media = <<>>
    /\ requests = <<>>
    /\ gpc = "idle"

mainVars ==
    <<latest_episodes, pending, animelist, dpc, current, mal_id, seen, patches,
      failure>>

episVars == <<all_items, fetched>>

EpisIdle ==
    /\ all_items = <<>>
    /\ fetched = NotCalled

MainIdle ==
    /\ latest_episodes = <<>>
    /\ pending = {}
    /\ animelist = <<>>
    /\ dpc = "idle"
    /\ current = 0
    /\ mal_id = 0
    /\ seen = <<>>
    /\ patches = <<>>
    /\ failure = "none"

AuthIdle ==
    /\ token_file = None
    /\ clock = 0
    /\ client_token = None
    /\ opc = "idle"
    /\ loaded = None
    /\ checked_at = None
    /\ initialize_calls = 0
    /\ refresh_calls = 0
    /\ writes = 0
    /\ returned = NotCalled
    /\ serial = 0
    /\ invocations = 0

AggInit ==
    /\ episodes \in {WithId(raw) : raw \in SeqsUpTo(EpisodeFields, MaxEpisodes)}
    /\ cursor = 0
    /\ status = EmptyMap
    /\ MapIdle
    /\ TravIdle
    /\ AuthIdle
    /\ MainIdle
    /\ EpisIdle

\* One turn of episodes.into_iter().for_each(..).
ForEachEpisode ==
    /\ cursor < Len(episodes)
    /\ cursor' = cursor + 1
    /\ status' = Visit(status, episodes[cursor + 1])
    /\ UNCHANGED <<episodes, mapVars, travVars, authVars, mainVars, episVars>>

AggNext == ForEachEpisode

SpecAgg == AggInit /\ [][AggNext]_vars

\* The episodes consumed so far, and the watched ones of a series among them.
Consumed == {episodes[i] : i \in 1..cursor}

WatchedOf(series) == {e \in Consumed : e.watched /\ e.tvdb_id = series}

\* (season, number) of a is lexicographically at least that of b.
LexGeq(a, b) ==
    \/ a.season_number > b.season_number
    \/ a.season_number = b.season_number /\ a.number >= b.number

\* C1: at every step of the reduce, and so in its result, every series with a
\* watched episode among those consumed has an entry, that entry is one of
\* the series' watched episodes, and its (season_number, number) pair is
\* lexicographically greatest among them, season first and number on a tie.
LatestIsLexMax ==
    \A s \in SeriesKeys :
        WatchedOf(s) # {} =>
            /\ s \in DOMAIN status
            /\ status[s] \in WatchedOf(s)
            /\ \A e \in WatchedOf(s) : LexGeq(status[s], e)

\* The reduce has finished and a watched episode of a strictly greater season
\* and a lower or equal number has replaced an earlier watched one.
LaterSeasonLowerNumberReplaced ==
    /\ cursor = Len(episodes)
    /\ \E i, j \in DOMAIN episodes :
        /\ i < j
        /\ episodes[i].watched /\ episodes[j].watched
        /\ episodes[i].tvdb_id = episodes[j].tvdb_id
        /\ episodes[j].season_number > episodes[i].season_number
        /\ episodes[j].number <= episodes[i].number
        /\ status[episodes[j].tvdb_id] = episodes[j]

\* C2: at every step of the reduce, and so in its result, every retained
\* entry has watched = TRUE, and a series none of whose consumed episodes is
\* watched has no entry.
NoUnwatchedRetained ==
    /\ \A k \in DOMAIN status : status[k].watched
    /\ \A s \in SeriesKeys : WatchedOf(s) = {} => s \notin DOMAIN status

\* The reduce has finished; an unwatched episode later than the retained one
\* has left it in place, and a series with only unwatched episodes has no entry.
UnwatchedLeftOut ==
    /\ cursor = Len(episodes)
    /\ \E i, j \in DOMAIN episodes :
        /\ i < j
        /\ episodes[i].watched /\ ~episodes[j].watched
        /\ episodes[i].tvdb_id = episodes[j].tvdb_id
        /\ Later(episodes[j], episodes[i])
        /\ status[episodes[i].tvdb_id] = episodes[i]
    /\ \E k \in DOMAIN episodes :
        /\ ~episodes[k].watched
        /\ episodes[k].tvdb_id \notin DOMAIN status

(***************************************************************************)
(* Identifier translation: mapping.rs.  Text fields are sequences of       *)
(* one-character strings, so rendering and parsing are computed.           *)
(***************************************************************************)
\* Bounds of the two mapping files.
MaxAnimes == 2
MaxOffline == 2

I32Min == -2147483647 - 1
I32Max == 2147483647

Digits == <<"0", "1", "2", "3", "4", "5", "6", "7", "8", "9">>

RECURSIVE NatToString(_)
NatToString(n) ==
    IF n < 10
    THEN <<Digits[n + 1]>>
    ELSE Append(NatToString(n \div 10), Digits[(n % 10) + 1])

\* i32::to_string: the decimal rendering, no leading zeros, "-" when negative.
I32ToString(n) == IF n < 0 THEN <<"-">> \o NatToString(-n) ELSE NatToString(n)

IsDigit(c) == \E d \in 1..10 : Digits[d] = c

DigitValue(c) == (CHOOSE d \in 1..10 : Digits[d] = c) - 1

RECURSIVE ParseDigits(_, _)
ParseDigits(s, acc) ==
    IF s = <<>>
    THEN Some(acc)
    ELSE IF IsDigit(Head(s))
         THEN ParseDigits(Tail(s), acc * 10 + DigitValue(Head(s)))
         ELSE None

\* str::parse::<i32>: an optional sign, then one or more digits, in range;
\* Some(value), or None where parse returns a ParseIntError.
ParseI32(s) ==
    LET signed == s # <<>> /\ Head(s) \in {"-", "+"}
        body == IF signed THEN Tail(s) ELSE s
        mag == IF body = <<>> THEN None ELSE ParseDigits(body, 0)
    IN  IF mag = None
        THEN None
        ELSE LET val == IF Head(s) = "-" THEN -mag[1] ELSE mag[1]
             IN  IF val >= I32Min /\ val <= I32Max THEN Some(val) ELSE None

\* The messages of the errors the translation returns.
NoAnidbMessage == "unable to map tvdb to anidb"
NoMalMessage == "unable to map anidb id to mal id"
ParseIntMessage == "invalid digit found in string"

\* The text fields and ids the mapping files are drawn from.
AnidbTexts == {<<"7">>, <<"8">>, <<"x">>}
TvdbTexts == {<<"1">>, <<"0", "1">>}
SeasonTexts == {<<"2">>, <<"a">>}
AnidbIds == {7, 8}
MalIds == {5, 6}
QueryTvdbIds == {1}
QuerySeasons == {1, 2}

\* struct Anime and struct OfflineAnime
Anime == [anidbid : AnidbTexts, tvdbid : TvdbTexts, defaulttvdbseason : SeasonTexts]

OfflineAnime ==
    [anidb_id : {Some(a) : a \in AnidbIds},
     mal_id : {None} \cup {Some(m) : m \in MalIds}]

\* The scan of tvdb_id_to_anidb_id with the season test left out.
RECURSIVE ScanAnimesAnySeason(_, _, _, _)
ScanAnimesAnySeason(list, i, tvdb_id, tvdb_season_number) ==
    IF i > Len(list)
    THEN Err(NoAnidbMessage)
    ELSE IF list[i].tvdbid = I32ToString(tvdb_id)
         THEN IF ParseI32(list[i].anidbid) = None
              THEN Err(ParseIntMessage)
              ELSE Ok(ParseI32(list[i].anidbid)[1])
         ELSE ScanAnimesAnySeason(list, i + 1, tvdb_id, tvdb_season_number)

\* The for loop of tvdb_id_to_anidb_id from record i on: the first record whose
\* two text fields equal the rendered arguments decides the result.
RECURSIVE ScanAnimes(_, _, _, _)
ScanAnimes(list, i, tvdb_id, tvdb_season_number) ==
    IF i > Len(list)
    THEN Err(NoAnidbMessage)
    ELSE IF /\ list[i].tvdbid = I32ToString(tvdb_id)
            /\ list[i].defaulttvdbseason = I32ToString(tvdb_season_number)
         THEN IF ParseI32(list[i].anidbid) = None
              THEN Err(ParseIntMessage)
              ELSE Ok(ParseI32(list[i].anidbid)[1])
         ELSE ScanAnimes(list, i + 1, tvdb_id, tvdb_season_number)

TvdbIdToAnidbIdAnySeason(tvdb_id, tvdb_season_number, list) ==
    ScanAnimesAnySeason(list, 1, tvdb_id, tvdb_season_number)

TvdbIdToAnidbId(tvdb_id, tvdb_season_number, list) ==
    ScanAnimes(list, 1, tvdb_id, tvdb_season_number)

\* find_map from record i on: the first Some the closure returns.
RECURSIVE FindMapMalId(_, _, _)
FindMapMalId(list, i, anidb_id) ==
    IF i > Len(list)
    THEN None
    ELSE LET found == IF list[i].anidb_id = Some(anidb_id)
                      THEN list[i].mal_id
                      ELSE None
         IN  IF found # None THEN found ELSE FindMapMalId(list, i + 1, anidb_id)

\* anidb_id_to_mal_id with unwrap_or_default in place of ok_or.
AnidbIdToMalIdOrDefault(anidb_id, list) ==
    LET found == FindMapMalId(list, 1, anidb_id)
    IN  IF found = None THEN Ok(0) ELSE Ok(found[1])

AnidbIdToMalId(anidb_id, list) ==
    LET found == FindMapMalId(list, 1, anidb_id)
    IN  IF found = None THEN Err(NoMalMessage) ELSE Ok(found[1])

\* tvdb_id_to_mal_id: each ? returns the error of the failed hop.
TvdbIdToMalId(tvdb_id, tvdb_season_number, listA, listB) ==
    LET anidb_id == TvdbIdToAnidbId(tvdb_id, tvdb_season_number, listA)
    IN  IF anidb_id.tag = "Err"
        THEN anidb_id
        ELSE AnidbIdToMalId(anidb_id.value, listB)

AggIdle ==
    /\ episodes = <<>>
    /\ cursor = 0
    /\ status = EmptyMap

MapInit ==
    /\ animes \in SeqsUpTo(Anime, MaxAnimes)
    /\ offline \in SeqsUpTo(OfflineAnime, MaxOffline)
    /\ query \in [tvdb_id : QueryTvdbIds, tvdb_season_number : QuerySeasons]
    /\ outcome = NotCalled
    /\ AggIdle
    /\ TravIdle
    /\ AuthIdle
    /\ MainIdle
    /\ EpisIdle

\* One call of tvdb_id_to_mal_id on the two files.
Translate ==
    /\ outcome = NotCalled
    /\ outcome' = TvdbIdToMalId(query.tvdb_id, query.tvdb_season_number, animes, offline)
    /\ UNCHANGED <<animes, offline, query, aggVars, travVars, authVars, mainVars, episVars>>

MapNext == Translate

SpecMap == MapInit /\ [][MapNext]_vars

Min(S) == CHOOSE x \in S : \A y \in S : x <= y

\* The Table-A records equal to the arguments: both text fields are the
\* decimal renderings of the arguments.
MatchesA ==
    {i \in DOMAIN animes :
        /\ animes[i].tvdbid = I32ToString(query.tvdb_id)
        /\ animes[i].defaulttvdbseason = I32ToString(query.tvdb_season_number)}

\* The intermediate id of the first of them, as an Option.
IntermediateId == ParseI32(animes[Min(MatchesA)].anidbid)

\* The Table-B records with that intermediate id and a destination id.
MatchesB ==
    {j \in DOMAIN offline :
        /\ offline[j].anidb_id = IntermediateId
        /\ offline[j].mal_id # None}

\* C9: when Table A has a record equal to (S, season) and Table B a record
\* with the first such record's intermediate id and a destination id, the
\* call returns the destination id of the first such Table-B record.
TranslateReturnsFirstMatch ==
    (/\ outcome.tag # "NotCalled"
     /\ MatchesA # {}
     /\ IntermediateId # None
     /\ MatchesB # {})
        => outcome = Ok(offline[Min(MatchesB)].mal_id[1])

\* A call for season 2 returned a destination id where source order decided:
\* two Table-A records match with different intermediate ids, and the first
\* Table-B record with the intermediate id has no destination id.
FirstMatchDecided ==
    /\ outcome.tag = "Ok"
    /\ query.tvdb_season_number = 2
    /\ \E i, k \in MatchesA : animes[i].anidbid # animes[k].anidbid
    /\ \E j \in DOMAIN offline :
        /\ j < Min(MatchesB)
        /\ offline[j].anidb_id = IntermediateId
        /\ offline[j].mal_id = None

\* C10: with no Table-A record equal to (S, season) the call fails with the
\* "unable to map tvdb to anidb" error; when Table A matches and no Table-B
\* record with that intermediate id has a destination id it fails with an
\* error of another message; neither case returns a destination id.
MissesAreDistinctErrors ==
    outcome.tag # "NotCalled" =>
        /\ (MatchesA = {} => outcome = Err(NoAnidbMessage))
        /\ ((MatchesA # {} /\ IntermediateId # None /\ MatchesB = {}) =>
                (outcome.tag = "Err" /\ outcome.error # NoAnidbMessage))

\* A call failed on Table A although a record carries the series id.
TableAMissReported ==
    /\ outcome = Err(NoAnidbMessage)
    /\ \E i \in DOMAIN animes : animes[i].tvdbid = I32ToString(query.tvdb_id)

(***************************************************************************)
(* Catalog traversal: JellyfinApi::get_items.  The catalog is a tree: the  *)
(* item of id i lies under the item catalog[i].parent, or under the        *)
(* implicit root when that is 0, and only folders have items under them.   *)
(***************************************************************************)
\* Bound of the catalog.
MaxItems == 4

\* struct Item, with the fields the traversal reads.
Item(n) == [parent : 0..(n - 1), is_folder : BOOLEAN]

IsTree(cat) ==
    \A i \in DOMAIN cat :
        /\ cat[i].parent < i
        /\ cat[i].parent # 0 => cat[cat[i].parent].is_folder

Catalogs == UNION {{cat \in [1..n -> Item(n)] : IsTree(cat)} : n \in 0..MaxItems}

\* The server's answer to GET /Items: the items directly under parentId, or
\* under the implicit root without one, in the order of their ids.
RECURSIVE ListFrom(_, _, _)
ListFrom(cat, i, parent_id) ==
    IF i > Len(cat)
    THEN <<>>
    ELSE IF cat[i].parent = (IF parent_id = None THEN 0 ELSE parent_id[1])
         THEN <<i>> \o ListFrom(cat, i + 1, parent_id)
         ELSE ListFrom(cat, i + 1, parent_id)

ListChildren(cat, parent_id) == ListFrom(cat, 1, parent_id)

\* The for loop pushing every item, folder or not.
RECURSIVE PushAll(_, _, _)
PushAll(cat, items, front) ==
    IF items = <<>>
    THEN front
    ELSE PushAll(cat, Tail(items), Append(front, Some(Head(items))))

\* The for loop without its push: no folder is entered.
PushNothing(cat, items, front) == front

\* The for loop over the response: frontier.push for every folder.
RECURSIVE PushFolders(_, _, _)
PushFolders(cat, items, front) ==
    IF items = <<>>
    THEN front
    ELSE PushFolders(cat, Tail(items),
                     IF cat[Head(items)].is_folder
                     THEN Append(front, Some(Head(items)))
                     ELSE front)

Pop(front) == SubSeq(front, 1, Len(front) - 1)

Last(front) == front[Len(front)]

AggMapIdle == AggIdle /\ MapIdle

TravInit ==
    /\ catalog \in Catalogs
    /\ root \in {None} \cup {Some(i) : i \in DOMAIN catalog}
    /\ frontier = <<>>
    /\ media = <<>>
    /\ requests = <<>>
    /\ gpc = "idle"
    /\ AggMapIdle
    /\ AuthIdle
    /\ MainIdle
    /\ EpisIdle

\* The call: media is empty and the frontier holds parent_id alone.
GetItemsCall ==
    /\ gpc = "idle"
    /\ frontier' = <<root>>
    /\ media' = <<>>
    /\ gpc' = "loop"
    /\ UNCHANGED <<catalog, root, requests, aggVars, mapVars, authVars, mainVars, episVars>>

\* One turn of the while loop whose request is answered and parsed; the loop
\* ends, and get_items returns Ok(media), once the frontier is empty.
GetItemsTurn ==
    /\ gpc = "loop"
    /\ frontier # <<>>
    /\ LET parent_id == Last(frontier)
           items == ListChildren(catalog, parent_id)
       IN  /\ requests' = Append(requests, parent_id)
           /\ frontier' = PushFolders(catalog, items, Pop(frontier))
           /\ media' = media \o items
    /\ gpc' = IF frontier' = <<>> THEN "ok" ELSE "loop"
    /\ UNCHANGED <<catalog, root, aggVars, mapVars, authVars, mainVars, episVars>>

\* One turn whose request fails or whose answer does not parse: ? returns Err.
GetItemsFail ==
    /\ gpc = "loop"
    /\ frontier # <<>>
    /\ requests' = Append(requests, Last(frontier))
    /\ frontier' = Pop(frontier)
    /\ gpc' = "err"
    /\ UNCHANGED <<catalog, root, media, aggVars, mapVars, authVars, mainVars, episVars>>

TravNext == GetItemsCall \/ GetItemsTurn \/ GetItemsFail

SpecTrav == TravInit /\ [][TravNext]_vars

\* Item i lies under the node r (None: the implicit root), at any depth.
RECURSIVE IsUnder(_, _)
IsUnder(i, r) ==
    \/ r = None
    \/ /\ catalog[i].parent # 0
       /\ \/ Some(catalog[i].parent) = r
          \/ IsUnder(catalog[i].parent, r)

\* The container nodes of the catalog under the root: the root itself and
\* every folder below it.
ContainerNodes ==
    {root} \cup {Some(i) : i \in {j \in DOMAIN catalog : catalog[j].is_folder /\ IsUnder(j, root)}}

\* C8: no container is ever listed twice and only container nodes are listed;
\* when get_items returns Ok it has sent exactly one request per container
\* node: the root and every folder under it, N requests for N containers.
OneRequestPerContainer ==
    /\ \A a, b \in DOMAIN requests : requests[a] = requests[b] => a = b
    /\ Range(requests) \subseteq ContainerNodes
    /\ gpc = "ok" =>
        /\ Range(requests) = ContainerNodes
        /\ Len(requests) = Cardinality(ContainerNodes)

\* get_items returned Ok over a catalog with nested folders, a folder with
\* two items under it, an empty folder and an item that is no folder.
NestedCatalogListed ==
    /\ gpc = "ok"
    /\ Len(requests) >= 4
    /\ \E i, j \in DOMAIN catalog :
        /\ catalog[j].parent = i /\ catalog[i].parent # 0
    /\ \E i, j \in DOMAIN catalog :
        /\ i # j /\ catalog[i].parent = catalog[j].parent
    /\ \E i \in DOMAIN catalog : ~catalog[i].is_folder
    /\ \E i \in DOMAIN catalog :
        /\ catalog[i].is_folder
        /\ \A j \in DOMAIN catalog : catalog[j].parent # i

(***************************************************************************)
(* Credential lifecycle: oauth.rs.  Times are milliseconds counted from    *)
(* the instant the model starts, so that they stay small; the code's i64   *)
(* arithmetic does not overflow on them.                                   *)
(***************************************************************************)
\* Bound on the number of runs of the program.
MaxInvocations == 2

FiveDaysMillis == 1000 * 60 * 60 * 24 * 5

OneDayMillis == 1000 * 60 * 60 * 24

\* Time that passes inside a call before the clock is read again, and
\* between the return of one run and the start of the next.
ElapsedWithin == {0, 1}
ElapsedBetween == {1, OneDayMillis, FiveDaysMillis + OneDayMillis}

\* The expires_in values the authorization server answers with.
ExpiresIn == {0, FiveDaysMillis, FiveDaysMillis + OneDayMillis}

\* The expiration dates of a token file left by an earlier run.
StoredExpirations ==
    {-FiveDaysMillis - 1, -FiveDaysMillis, -1, 0, 1, 2,
     FiveDaysMillis, FiveDaysMillis + 1, FiveDaysMillis + 2,
     FiveDaysMillis + OneDayMillis}

\* struct ClientToken; the k-th token the server issues carries secrets k.
ClientToken(k, expiration_date) ==
    [refresh_token |-> <<"refresh", k>>,
     access_token |-> <<"access", k>>,
     expiration_date |-> expiration_date]

\* ClientToken::try_from at time current_time_millis.
TryFrom(k, current_time_millis, expires_in) ==
    ClientToken(k, current_time_millis + expires_in)

\* The branch taken with the refresh test ahead of the expiry test.
TransitionRefreshFirst(expiration_date, current_time_millis) ==
    IF current_time_millis - expiration_date >= FiveDaysMillis
    THEN "refresh"
    ELSE IF expiration_date <= current_time_millis
         THEN "initialize"
         ELSE "keep"

\* The refresh test on the time left, with >= in place of <=.
TransitionRefreshFresh(expiration_date, current_time_millis) ==
    IF expiration_date <= current_time_millis
    THEN "initialize"
    ELSE IF expiration_date - current_time_millis >= FiveDaysMillis
         THEN "refresh"
         ELSE "keep"

\* The if / else if of lines 168-176: which exchange, if any, is run.
Transition(expiration_date, current_time_millis) ==
    IF expiration_date <= current_time_millis
    THEN "initialize"
    ELSE IF current_time_millis - expiration_date >= FiveDaysMillis
         THEN "refresh"
         ELSE "keep"

\* The save written to another path than token_path.
FileAfterSaveElsewhere(content, token) == content

\* File::create(token_path) and to_writer_pretty: the file holds the token.
\* (The buffered write is taken to reach the file.)
FileAfterSave(content, token) == Some(token)

AuthInit ==
    /\ token_file \in {None} \cup {Some(ClientToken(0, e)) : e \in StoredExpirations}
    /\ clock = 0
    /\ client_token = None
    /\ opc = "idle"
    /\ loaded = None
    /\ checked_at = None
    /\ initialize_calls = 0
    /\ refresh_calls = 0
    /\ writes = 0
    /\ returned = NotCalled
    /\ serial = 0
    /\ invocations = 0
    /\ AggMapIdle
    /\ TravIdle
    /\ MainIdle
    /\ EpisIdle

\* A run of the program may call load_or_refresh_token.
CanCall ==
    /\ opc \in {"idle", "returned", "failed"}
    /\ invocations < MaxInvocations

Gaps == IF invocations = 0 THEN {0} ELSE ElapsedBetween

\* Lines 151-157: no file at token_path, so initialize_token is awaited; it
\* returns a token, or an error that ? returns.
CallWithoutFile ==
    /\ CanCall
    /\ token_file = None
    /\ \E gap \in Gaps, dt \in ElapsedWithin, ok \in BOOLEAN, expires_in \in ExpiresIn :
        /\ clock' = clock + gap + dt
        /\ IF ok
           THEN /\ client_token' = Some(TryFrom(serial + 1, clock', expires_in))
                /\ serial' = serial + 1
                /\ opc' = "loaded"
                /\ returned' = NotCalled
           ELSE /\ client_token' = None
                /\ serial' = serial
                /\ opc' = "failed"
                /\ returned' = Err("initialize_token failed")
    /\ loaded' = None
    /\ checked_at' = None
    /\ initialize_calls' = 1
    /\ refresh_calls' = 0
    /\ writes' = 0
    /\ invocations' = invocations + 1
    /\ UNCHANGED <<token_file, aggVars, mapVars, travVars, mainVars, episVars>>

\* Lines 158-163: the file exists and is read into client_token.
CallWithFile ==
    /\ CanCall
    /\ token_file # None
    /\ \E gap \in Gaps : clock' = clock + gap
    /\ client_token' = token_file
    /\ loaded' = token_file
    /\ opc' = "loaded"
    /\ returned' = NotCalled
    /\ checked_at' = None
    /\ initialize_calls' = 0
    /\ refresh_calls' = 0
    /\ writes' = 0
    /\ invocations' = invocations + 1
    /\ UNCHANGED <<token_file, serial, aggVars, mapVars, travVars, mainVars, episVars>>

\* Lines 165-176: the clock is read and the token in hand is replaced through
\* initialize_token, replaced through refresh_token, or kept; a failed
\* exchange is returned by ?.
Resolve ==
    /\ opc = "loaded"
    /\ \E dt \in ElapsedWithin, ok \in BOOLEAN, expires_in \in ExpiresIn :
        LET current_time_millis == clock + dt
            step == Transition(client_token[1].expiration_date, current_time_millis)
        IN  /\ clock' = current_time_millis
            /\ checked_at' = Some(current_time_millis)
            /\ initialize_calls' =
                    initialize_calls + (IF step = "initialize" THEN 1 ELSE 0)
            /\ refresh_calls' = refresh_calls + (IF step = "refresh" THEN 1 ELSE 0)
            /\ IF step = "keep"
               THEN /\ opc' = "resolved"
                    /\ UNCHANGED <<client_token, serial, returned>>
               ELSE IF ok
                    THEN /\ client_token' =
                                Some(TryFrom(serial + 1, current_time_millis, expires_in))
                         /\ serial' = serial + 1
                         /\ opc' = "resolved"
                         /\ UNCHANGED returned
                    ELSE /\ opc' = "failed"
                         /\ returned' = Err("token exchange failed")
                         /\ UNCHANGED <<client_token, serial>>
    /\ UNCHANGED <<token_file, loaded, writes, invocations, aggVars, mapVars, travVars, mainVars, episVars>>

\* Lines 178-183: the token in hand is written to token_path and returned;
\* when File::create fails ? returns the error and the file stays as it was.
Save ==
    /\ opc = "resolved"
    /\ \E ok \in BOOLEAN :
        IF ok
        THEN /\ token_file' = FileAfterSave(token_file, client_token[1])
             /\ writes' = writes + 1
             /\ returned' = Ok(client_token[1])
             /\ opc' = "returned"
        ELSE /\ returned' = Err("File::create failed")
             /\ opc' = "failed"
             /\ UNCHANGED <<token_file, writes>>
    /\ UNCHANGED <<clock, client_token, loaded, checked_at, initialize_calls,
                   refresh_calls, serial, invocations, aggVars, mapVars, travVars, mainVars, episVars>>

AuthNext == CallWithoutFile \/ CallWithFile \/ Resolve \/ Save

SpecAuth == AuthInit /\ [][AuthNext]_vars

\* This call read a token from the file and has passed the tests of lines
\* 168-176 at time checked_at[1].
LoadedAndChecked == loaded # None /\ checked_at # None

\* C3: a call that loaded a token whose expiration date is not later than the
\* time it read has run initialize_token, once, and has not run refresh_token.
ExpiredIsReinitialized ==
    (LoadedAndChecked /\ loaded[1].expiration_date <= checked_at[1]) =>
        (initialize_calls = 1 /\ refresh_calls = 0)

\* A call loaded a token expired for more than five days and returned the
\* token of a full authorization.
LongExpiredReinitialized ==
    /\ LoadedAndChecked
    /\ checked_at[1] - loaded[1].expiration_date >= FiveDaysMillis
    /\ opc = "returned"
    /\ initialize_calls = 1
    /\ returned.value # loaded[1]

\* C4: a call that loaded a token not yet expired, with at most five days
\* left, has run refresh_token, and the token it returns is the refreshed one.
NearExpiryIsRefreshed ==
    (/\ LoadedAndChecked
     /\ checked_at[1] < loaded[1].expiration_date
     /\ loaded[1].expiration_date - checked_at[1] <= FiveDaysMillis)
        => /\ refresh_calls = 1
           /\ opc = "returned" => returned.value # loaded[1]

MaxCount == 2

\* The mapping files of the run: tvdb 1 and 2 lead to mal 5 and 6, tvdb 3 to
\* an anidb id without mal id, and only season 1 is mapped.
RunAnimes ==
    <<[anidbid |-> <<"7">>, tvdbid |-> <<"1">>, defaulttvdbseason |-> <<"1">>],
      [anidbid |-> <<"8">>, tvdbid |-> <<"2">>, defaulttvdbseason |-> <<"1">>],
      [anidbid |-> <<"9">>, tvdbid |-> <<"3">>, defaulttvdbseason |-> <<"1">>]>>

RunOffline ==
    <<[anidb_id |-> Some(7), mal_id |-> Some(5)],
      [anidb_id |-> Some(9), mal_id |-> None],
      [anidb_id |-> Some(8), mal_id |-> Some(6)]>>

RunTvdbIds == {1, 2, 3}
RunSeasons == {1, 2}
RunMalIds == {5, 6}

\* HashMap<i32, Episode> as get_latest_episodes returns it, with the fields
\* the loop reads.
LatestEpisodes ==
    UNION {[keys -> [season_number : RunSeasons, number : 1..MaxCount]] :
            keys \in SUBSET RunTvdbIds}

\* struct UserAnimeListDatum, flattened; the destination lists a series once.
Datum == [id : RunMalIds, num_episodes_watched : 0..MaxCount]

AnimeLists ==
    {list \in SeqsUpTo(Datum, Cardinality(RunMalIds)) :
        \A a, b \in DOMAIN list : list[a].id = list[b].id => a = b}

\* The for loop of get_latest_episode_number from datum i on.
RECURSIVE ScanAnimeList(_, _, _)
ScanAnimeList(list, i, series_id) ==
    IF i > Len(list)
    THEN 0
    ELSE IF list[i].id = series_id
         THEN list[i].num_episodes_watched
         ELSE ScanAnimeList(list, i + 1, series_id)

GetLatestEpisodeNumber(list, series_id) == ScanAnimeList(list, 1, series_id)

\* The destination after PATCH /anime/{series_id}/my_list_status.
AfterPatch(list, series_id, episode_number) ==
    IF \E i \in DOMAIN list : list[i].id = series_id
    THEN [i \in DOMAIN list |->
            IF list[i].id = series_id
            THEN [id |-> series_id, num_episodes_watched |-> episode_number]
            ELSE list[i]]
    ELSE Append(list, [id |-> series_id, num_episodes_watched |-> episode_number])

\* The test of line 59 with >= in place of >.
AheadOrLevel(number, mal_latest_episode_number) == number >= mal_latest_episode_number

\* Line 59: the update is due.
Ahead(number, mal_latest_episode_number) == number > mal_latest_episode_number

MainInit ==
    /\ latest_episodes \in LatestEpisodes
    /\ pending = DOMAIN latest_episodes
    /\ animelist \in AnimeLists
    /\ dpc = "loop"
    /\ current = 0
    /\ mal_id = 0
    /\ seen = <<>>
    /\ patches = <<>>
    /\ failure = "none"
    /\ animes = RunAnimes
    /\ offline = RunOffline
    /\ query = None
    /\ outcome = NotCalled
    /\ AggIdle
    /\ TravIdle
    /\ AuthIdle
    /\ EpisIdle

\* Lines 56-57: the loop takes an entry, in the map's arbitrary order, and
\* translates its key; ? returns a translation error from main.
NextSeries ==
    /\ dpc = "loop"
    /\ \E tvdb_id \in pending :
        LET translated ==
                TvdbIdToMalId(tvdb_id, latest_episodes[tvdb_id].season_number,
                              animes, offline)
        IN  /\ pending' = pending \ {tvdb_id}
            /\ current' = tvdb_id
            /\ IF translated.tag = "Err"
               THEN /\ dpc' = "aborted"
                    /\ failure' = "mapping"
                    /\ UNCHANGED mal_id
               ELSE /\ dpc' = "query"
                    /\ mal_id' = translated.value
                    /\ UNCHANGED failure
    /\ UNCHANGED <<latest_episodes, animelist, seen, patches,
                   aggVars, mapVars, travVars, authVars, episVars>>

\* Lines 58-59: the destination's list is fetched and scanned, and the
\* episode number compared with the count found.
QueryDestination ==
    /\ dpc = "query"
    /\ seen' = Insert(seen, current, animelist)
    /\ dpc' = IF Ahead(latest_episodes[current].number,
                       GetLatestEpisodeNumber(animelist, mal_id))
              THEN "set"
              ELSE "loop"
    /\ UNCHANGED <<latest_episodes, pending, animelist, current, mal_id, patches,
                   failure, aggVars, mapVars, travVars, authVars, episVars>>

\* Lines 61-63: the update is sent and the destination records it.
SetDestination ==
    /\ dpc = "set"
    /\ patches' = Append(patches, [tvdb_id |-> current, mal_id |-> mal_id,
                                   episode_number |-> latest_episodes[current].number])
    /\ animelist' = AfterPatch(animelist, mal_id, latest_episodes[current].number)
    /\ dpc' = "loop"
    /\ UNCHANGED <<latest_episodes, pending, current, mal_id, seen, failure,
                   aggVars, mapVars, travVars, authVars, episVars>>

\* A request to the destination fails, or its answer does not parse, and ?
\* returns the error from main.
DestinationFails ==
    /\ dpc \in {"query", "set"}
    /\ dpc' = "aborted"
    /\ failure' = "transport"
    /\ UNCHANGED <<latest_episodes, pending, animelist, current, mal_id, seen,
                   patches, aggVars, mapVars, travVars, authVars, episVars>>

\* Line 67: the loop has run over every entry and main returns Ok(()).
MainReturns ==
    /\ dpc = "loop"
    /\ pending = {}
    /\ dpc' = "done"
    /\ UNCHANGED <<latest_episodes, pending, animelist, current, mal_id, seen,
                   patches, failure, aggVars, mapVars, travVars, authVars, episVars>>

MainNext ==
    NextSeries \/ QueryDestination \/ SetDestination \/ DestinationFails \/ MainReturns

SpecMain == MainInit /\ [][MainNext]_vars

\* The watched count a list holds for a series: that of its datum, 0 without.
CountIn(list, series_id) ==
    IF \E i \in DOMAIN list : list[i].id = series_id
    THEN list[CHOOSE i \in DOMAIN list : list[i].id = series_id].num_episodes_watched
    ELSE 0

\* The series the translator maps, and the mal id it maps each to.
Mapped(t) ==
    TvdbIdToMalId(t, latest_episodes[t].season_number, RunAnimes, RunOffline).tag = "Ok"

MalIdOf(t) ==
    TvdbIdToMalId(t, latest_episodes[t].season_number, RunAnimes, RunOffline).value

\* C6: every update sent is for a series of the map, carries that series'
\* episode number, follows a query for the series, and the number is strictly
\* greater than the count the queried list held for its mal id (0 when the
\* list does not hold it); no update is sent while the comparison is pending
\* or after it found the number less than or equal.
UpdateOnlyWhenAhead ==
    /\ \A k \in DOMAIN patches :
        LET p == patches[k]
        IN  /\ p.tvdb_id \in DOMAIN seen
            /\ p.episode_number = latest_episodes[p.tvdb_id].number
            /\ p.episode_number > CountIn(seen[p.tvdb_id], p.mal_id)
    /\ \A t \in DOMAIN seen :
        latest_episodes[t].number <= CountIn(seen[t], MalIdOf(t))
            => \A k \in DOMAIN patches : patches[k].tvdb_id # t

\* A run ended with an update sent for a series ahead of a listed count, and
\* none for a series level with the destination.
AheadUpdatedLevelSkipped ==
    /\ dpc = "done"
    /\ \E k \in DOMAIN patches :
        CountIn(seen[patches[k].tvdb_id], patches[k].mal_id) > 0
    /\ \E t \in DOMAIN seen :
        /\ \A k \in DOMAIN patches : patches[k].tvdb_id # t
        /\ \E i \in DOMAIN seen[t] :
            seen[t][i].num_episodes_watched = latest_episodes[t].number

\* C7: a run that ends without a failed request to the destination has not
\* been aborted, and every series the translator maps whose episode number
\* is strictly ahead of the destination's count has got its update.
MappingFailureSkipped ==
    (dpc \in {"done", "aborted"} /\ failure # "transport") =>
        /\ dpc = "done"
        /\ \A t \in DOMAIN latest_episodes :
            Mapped(t) =>
                \/ \E k \in DOMAIN patches : patches[k].tvdb_id = t
                \/ latest_episodes[t].number <= CountIn(animelist, MalIdOf(t))

(***************************************************************************)
(* Episode extraction: JellyfinApi::get_episodes, on the items get_items   *)
(* returned.  An item's id is its position, so ids are unique.             *)
(***************************************************************************)
\* Bound of the item list.
MaxAllItems == 3

\* The values the fields of the items are drawn from.
KeyTexts == {<<"4", "2">>, <<"x">>}
IndexNumbers == {None, Some(8)}
ParentIndexNumbers == {None, Some(2)}
SeriesNames == {None, Some("test_series")}
SeriesIds == {None, Some(1)}

\* struct Item without its id: Series items, Season items and Episode items.
SeriesItems ==
    [media_type : {"Series"}, index_number : {None}, parent_index_number : {None},
     series_name : {None}, series_id : {None}, played : {FALSE}, key : KeyTexts]

SeasonItems ==
    [media_type : {"Season"}, index_number : {Some(2)}, parent_index_number : {None},
     series_name : {Some("test_series")}, series_id : {Some(1)}, played : {FALSE},
     key : {<<"k">>}]

EpisodeItems ==
    [media_type : {"Episode"}, index_number : IndexNumbers,
     parent_index_number : ParentIndexNumbers, series_name : SeriesNames,
     series_id : SeriesIds, played : BOOLEAN, key : {<<"k">>}]

ItemFields == SeriesItems \cup SeasonItems \cup EpisodeItems

WithItemId(raw) ==
    [i \in DOMAIN raw |->
        [id |-> i, media_type |-> raw[i].media_type,
         index_number |-> raw[i].index_number,
         parent_index_number |-> raw[i].parent_index_number,
         series_name |-> raw[i].series_name, series_id |-> raw[i].series_id,
         played |-> raw[i].played, key |-> raw[i].key]]

\* Lines 96-100: series_tvdb after the items from i on.
RECURSIVE BuildSeriesTvdb(_, _, _)
BuildSeriesTvdb(list, i, series_tvdb) ==
    IF i > Len(list)
    THEN series_tvdb
    ELSE BuildSeriesTvdb(list, i + 1,
                         IF list[i].media_type = "Series"
                         THEN Insert(series_tvdb, list[i].id, list[i].key)
                         ELSE series_tvdb)

\* The test of line 104 left out: no item is passed over.
NeverSkipped(item) == FALSE

\* Lines 104-106: an episode without index_number is passed over.
Skipped(item) == item.index_number = None

\* Lines 102-128: the second loop from item i on; each ok_or(..)? and the
\* parse()? return their error from get_episodes.
RECURSIVE CollectEpisodes(_, _, _, _)
CollectEpisodes(list, i, series_tvdb, collected) ==
    IF i > Len(list)
    THEN Ok(collected)
    ELSE LET item == list[i]
         IN  IF item.media_type # "Episode" \/ Skipped(item)
             THEN CollectEpisodes(list, i + 1, series_tvdb, collected)
             ELSE IF item.series_name = None
             THEN Err("episode missing series")
             ELSE IF item.index_number = None
             THEN Err("episode missing number")
             ELSE IF item.parent_index_number = None
             THEN Err("episode missing season number")
             ELSE IF item.series_id = None
             THEN Err("episode missing series id")
             ELSE IF item.series_id[1] \notin DOMAIN series_tvdb
             THEN Err("unable to get tvdb id for episode")
             ELSE IF ParseI32(series_tvdb[item.series_id[1]]) = None
             THEN Err(ParseIntMessage)
             ELSE CollectEpisodes(list, i + 1, series_tvdb,
                    Append(collected,
                           [id |-> item.id,
                            number |-> item.index_number[1],
                            season_number |-> item.parent_index_number[1],
                            series_name |-> item.series_name[1],
                            watched |-> item.played,
                            tvdb_id |-> ParseI32(series_tvdb[item.series_id[1]])[1]]))

GetEpisodes(list) ==
    CollectEpisodes(list, 1, BuildSeriesTvdb(list, 1, EmptyMap), <<>>)

EpisInit ==
    /\ \E n \in 0..MaxAllItems :
        \E raw \in [1..n -> ItemFields] : all_items = WithItemId(raw)
    /\ fetched = NotCalled
    /\ AggMapIdle
    /\ TravIdle
    /\ AuthIdle
    /\ MainIdle

\* One call of get_episodes on the items.
FetchEpisodes ==
    /\ fetched = NotCalled
    /\ fetched' = GetEpisodes(all_items)
    /\ UNCHANGED <<all_items, aggVars, mapVars, travVars, authVars, mainVars>>

EpisNext == FetchEpisodes

SpecEpis == EpisInit /\ [][EpisNext]_vars

\* The Episode items with and without index_number.
Numbered ==
    {i \in DOMAIN all_items :
        all_items[i].media_type = "Episode" /\ all_items[i].index_number # None}

Unnumbered ==
    {i \in DOMAIN all_items :
        all_items[i].media_type = "Episode" /\ all_items[i].index_number = None}

\* A numbered Episode item that get_episodes can turn into an Episode: its
\* fields are present, its series is among the items and that key is a number.
Sound(i) ==
    /\ all_items[i].series_name # None
    /\ all_items[i].parent_index_number # None
    /\ all_items[i].series_id # None
    /\ \E j \in DOMAIN all_items :
        /\ all_items[j].media_type = "Series"
        /\ Some(j) = all_items[i].series_id
        /\ ParseI32(all_items[j].key) # None

\* C11: once get_episodes has returned, (a) if some Episode item has an
\* index_number and no series_id the result is an error, with no episodes;
\* (b) Episode items without index_number cause no error: when every
\* numbered Episode item is sound the result is Ok, whatever the unnumbered
\* ones lack; (c) an Ok result holds one entry per numbered Episode item and
\* none for an unnumbered one.
UnnumberedSkippedSeriesIdRequired ==
    fetched.tag # "NotCalled" =>
        /\ (\E i \in Numbered : all_items[i].series_id = None) => fetched.tag = "Err"
        /\ (\A i \in Numbered : Sound(i)) => fetched.tag = "Ok"
        /\ fetched.tag = "Ok" =>
            /\ Len(fetched.value) = Cardinality(Numbered)
            /\ {fetched.value[k].id : k \in DOMAIN fetched.value} = Numbered

\* get_episodes returned one Episode from a list that also holds an Episode
\* item lacking index_number and series_id.
UnnumberedPassedOver ==
    /\ fetched.tag = "Ok"
    /\ Len(fetched.value) = 1
    /\ \E i \in Unnumbered : all_items[i].series_id = None

\* C12: a call that loaded a token with more than five days left has run
\* neither initialize_token nor refresh_token, holds the loaded token, and
\* returns it with the same access_token, refresh_token and expiration_date.
FreshIsKept ==
    (LoadedAndChecked /\ loaded[1].expiration_date - checked_at[1] > FiveDaysMillis) =>
        /\ initialize_calls = 0
        /\ refresh_calls = 0
        /\ opc # "failed" => client_token = loaded
        /\ opc = "returned" =>
            /\ returned.value.access_token = loaded[1].access_token
            /\ returned.value.refresh_token = loaded[1].refresh_token
            /\ returned.value.expiration_date = loaded[1].expiration_date

\* A second run loaded the token the first run had minted and saved, found
\* more than five days left, and returned it.
FreshTokenReturned ==
    /\ opc = "returned"
    /\ invocations = 2
    /\ LoadedAndChecked
    /\ loaded[1].expiration_date - checked_at[1] > FiveDaysMillis
    /\ loaded[1].access_token = <<"access", 1>>
    /\ returned.value = loaded[1]

\* This call found no file at token_path.
StartedWithoutFile == invocations > 0 /\ loaded = None

\* C13: a call that found no file has run initialize_token exactly once and
\* refresh_token not at all, and the token it returns is the one that
\* authorization minted.
AbsentAuthorizedOnce ==
    StartedWithoutFile =>
        /\ initialize_calls = 1
        /\ refresh_calls = 0

(***************************************************************************)
(* Termination of get_items when every listing request succeeds: the loop  *)
(* awaits each request and goes on when it is answered, so a turn that can *)
(* be taken is taken.                                                      *)
(***************************************************************************)
TravAnsweredNext == GetItemsCall \/ GetItemsTurn

SpecTravFair == TravInit /\ [][TravAnsweredNext]_vars /\ WF_vars(TravAnsweredNext)

\* The items under the root, at any depth.
Descendants == {i \in DOMAIN catalog : IsUnder(i, root)}

\* media holds every item under the root once and nothing else.
MediaIsDescendantsOnce ==
    /\ Len(media) = Cardinality(Descendants)
    /\ \A i \in Descendants : Cardinality({k \in DOMAIN media : media[k] = i}) = 1

\* C14: with every listing request answered, get_items eventually returns Ok
\* with an empty frontier and a media holding every item under the root
\* exactly once; for an empty catalog that is the empty Vec.
TraversalCompletes ==
    <>(gpc = "ok" /\ frontier = <<>> /\ MediaIsDescendantsOnce)

\* get_items returned every item of a catalog three levels deep.
DeepCatalogCollected ==
    /\ gpc = "ok"
    /\ frontier = <<>>
    /\ Len(media) = Len(catalog)
    /\ \E i \in DOMAIN catalog :
        /\ catalog[i].parent # 0
        /\ catalog[catalog[i].parent].parent # 0
    /\ \E i \in DOMAIN catalog : ~catalog[i].is_folder

====
